---- MODULE Spec2Model ----
(***************************************************************************)
(* Telemetry buffering and delivery engine of the Kuyo SDK.                *)
(*                                                                         *)
(* FetchTransport (lib/transport) keeps one array of pending metric        *)
(* records per buffer key, flushes a key when the array reaches batchSize  *)
(* or when the key's idle timer fires, and POSTs the batch with fetch.     *)
(* The only suspension point is the fetch: everything a handler does       *)
(* between two fetches is one atomic step of the event loop, and so one    *)
(* action here.                                                            *)
(*                                                                         *)
(* KuyoCore (core) builds one envelope per captureException/captureMessage  *)
(* call and hands it to FetchTransport.send; sendCriticalMetric POSTs one   *)
(* record without buffering.  Spec is the buffering path, SpecDirect the    *)
(* direct sends, SpecHost a host that exercises either.  outcomes records   *)
(* how each call of the host ended.                                         *)
(*                                                                         *)
(* Init is either the transport as constructed, or the transport after     *)
(* batchSize - WarmGap records were added under one key at time 0, which   *)
(* is where the size threshold comes within reach of a few more calls.     *)
(*                                                                         *)
(* A string is a sequence of tokens; the token "-" is the separator that   *)
(* the buffer key is built with and split on.  A metric record is the      *)
(* pair <<k, n>>: the n-th record passed to sendPerformanceMetric under    *)
(* key k, so n grows in insertion order within a key.                      *)
(***************************************************************************)
EXTENDS Integers, Sequences, FiniteSets, TLC

\* ------------------------------------------------------------------ bounds
\* calls of sendPerformanceMetric after Init
MaxAdds == 2
\* calls of flushAllMetrics
MaxForce == 1
\* calls of destroy
MaxDestroy == 2
\* the warmed-up initial state has batchSize - WarmGap records buffered under
\* WarmCaller
WarmGap == 1
\* the clock advances in steps of TickStep up to MaxTime
TickStep == 15000
MaxTime == 30000
\* calls of captureException and captureMessage
MaxCaptures == 2
\* calls of sendCriticalMetric
MaxCriticals == 2
\* calls of sendPerformanceBatch
MaxBatches == 2
\* runs of the KuyoCore constructor, the one of Init included
MaxCores == 3
\* calls of cleanSession
MaxEnds == 2
\* calls of KuyoPerformance.addMetric: one more than batchSize
MaxPluginAdds == 51
\* calls of KuyoPerformance.setup, and of KuyoPerformance.teardown
MaxPluginCalls == 2
\* calls of wrapped handlers
MaxWraps == 2
\* unhandled errors raised in the host
MaxErrorEvents == 2

\* ------------------------------------------------------- program constants
batchSize == 50
batchTimeout == 30000

\* (sessionId, platform) pairs that callers pass to sendPerformanceMetric
Callers ==
    { << <<"kuyo_a">>, <<"browser">> >>,
      << <<"u", "-", "7">>, <<"nodejs">> >> }

WarmCaller == << <<"kuyo_a">>, <<"browser">> >>

Prefill == batchSize - WarmGap

\* ------------------------------------------------------------ pure helpers
\* the key leaves the platform out
BufferKeyOfSession(sessionId, platform) == sessionId \o <<"-">> \o <<"browser">>

\* `${sessionId}-${platform}`
BufferKey(sessionId, platform) == sessionId \o <<"-">> \o platform

AllKeys == { BufferKey(c[1], c[2]) : c \in Callers }

\* String.prototype.split("-"): the pieces between the separators
RECURSIVE SplitFrom(_, _, _)
SplitFrom(s, i, piece) ==
    IF i > Len(s) THEN << piece >>
    ELSE IF s[i] = "-" THEN << piece >> \o SplitFrom(s, i + 1, << >>)
    ELSE SplitFrom(s, i + 1, Append(piece, s[i]))

Split(s) == SplitFrom(s, 1, << >>)

\* const [sessionId, platform] = bufferKey.split("-")
DecodeKey(bufferKey) ==
    LET parts == Split(bufferKey)
    IN  [sessionId |-> parts[1], platform |-> parts[2]]

Range(s) == { s[i] : i \in 1..Len(s) }

\* Map.prototype.delete on a function with a finite domain
MapDelete(m, k) == [x \in (DOMAIN m) \ {k} |-> m[x]]

\* Map.prototype.set
MapSet(m, k, v) == [x \in (DOMAIN m) \cup {k} |-> IF x = k THEN v ELSE m[x]]

EmptyMap == [x \in {} |-> 0]

\* ------------------------------------------------------------------- state
VARIABLES
    now,            \* the clock (ms)
    keyOrder,       \* metricsBuffer's keys in Map insertion order
    metricsBuffer,  \* FetchTransport.metricsBuffer: key -> array of records
    batchTimers,    \* FetchTransport.batchTimers: key -> timer handle
    timers,         \* setTimeout callbacks not yet run or cleared
    armed,          \* key -> idle timers created for the key so far
    requests,       \* key -> every fetch to /performance/batch for the key,
                    \*        in the order started
    added,          \* key -> records added under the key so far
    firstAdd,       \* key -> time of the first add since the key's last flush, or -1
    solo,           \* key -> n of the record added alone to the empty key, or 0
    forced,         \* flushAllMetrics calls so far
    destroyed,      \* destroy calls so far
    adds,           \* sendPerformanceMetric calls since Init
    outcomes,       \* << call, outcome of its fetch, how the call ended >>
    events,         \* the envelopes createEvent has built, in order
    eventRequests,  \* every fetch of FetchTransport.send, in the order started
    criticalRequests, \* every fetch to /performance/metric, in the order started
    batchRequests,  \* every fetch of sendPerformanceBatch, in the order started
    calls,          \* calls of the direct sends so far
    storage,        \* sessionStorage item "kuyo_session"; << >> when absent
    cores,          \* the KuyoCore objects, in the order constructed
    constructed,    \* runs of the KuyoCore constructor so far
    ended,          \* the id each cleanSession call released, in order
    inits,          \* how each call of init ended
    wraps,          \* the calls of wrapped handlers: what the handler did and
                    \* what the wrapper did
    globalCore,     \* index.ts globalCore: an index into cores, 0 for null
    handlers,       \* the error listeners registered on window, in order
    performance     \* a KuyoPerformance object

\* the buffering path
bvars == << now, keyOrder, metricsBuffer, batchTimers, timers, armed,
            requests, added, firstAdd, solo, forced, destroyed, adds >>

\* the direct sends
dvars == << events, eventRequests, criticalRequests, batchRequests, calls >>

\* the cores and their sessions
cvars == << storage, cores, constructed, ended, inits, wraps, globalCore,
           handlers, performance >>

vars == << now, keyOrder, metricsBuffer, batchTimers, timers, armed,
           requests, added, firstAdd, solo, forced, destroyed, adds,
           outcomes, events, eventRequests, criticalRequests, batchRequests,
           calls, storage, cores, constructed, ended, inits, wraps,
           globalCore, handlers, performance >>

\* this.metricsBuffer.get(k), undefined read as the empty array
BufferOf(k) == IF k \in DOMAIN metricsBuffer THEN metricsBuffer[k] ELSE << >>

PendingFor(k) == { i \in 1..Len(requests[k]) : requests[k][i].status = "pending" }

TimersFor(k) == { t \in timers : t.key = k }

\* metrics.unshift(metric): the record goes to the front of the array
PushFront(metrics, metric) == << metric >> \o metrics

\* metrics.push(metric)
Push(metrics, metric) == Append(metrics, metric)

\* ------------------------------------------------------------ try / catch
\* what the try block around a fetch ends with: it throws on a rejected fetch
\* and on a response that is not ok
TryFetch(ok) == IF ok THEN "resolved" ELSE "rejected"

\* a catch block that passes the error on
SwallowNot(result) == result

\* a catch block that only logs: the function ends normally
Swallow(result) == "resolved"

\* flushMetrics: try { fetch ... } catch { log }
FlushMetricsResult(ok) == Swallow(TryFetch(ok))

\* the outcome of a fetch as outcomes records it
Outcome(ok) == IF ok THEN "ok" ELSE "failed"

\* ---------------------------------------------------------- flushMetrics
\* flushMetrics returns early only for a key it does not know
FlushIsNoopUnknownOnly(buffer, k) == k \notin DOMAIN buffer

\* the early return of flushMetrics: nothing buffered under k
FlushIsNoop(buffer, k) == k \notin DOMAIN buffer \/ buffer[k] = << >>

\* the request flushMetrics(k) hands to fetch: a copy of the whole buffer
\* (rest: the keys its flushAllMetrics caller has still to visit; snap: what
\* was buffered when that caller was called)
NewRequest(buffer, k, trigger, rest) ==
    [ sessionId |-> DecodeKey(k).sessionId,
      platform  |-> DecodeKey(k).platform,
      batch     |-> buffer[k],
      trigger   |-> trigger,
      rest      |-> rest,
      snap      |-> EmptyMap,
      status    |-> "pending" ]

\* flushAllMetrics' loop over the keys still to visit: the keys whose
\* flushMetrics returns early are passed over, the first other one suspends
\* the loop on its fetch (0: the loop runs to its end)
FirstToFlush(buffer, ks) ==
    LET idx == { i \in 1..Len(ks) : ~FlushIsNoop(buffer, ks[i]) }
    IN  IF idx = {} THEN 0 ELSE CHOOSE i \in idx : \A j \in idx : i <= j

\* --------------------------------------------------------------- session
\* the configurations handed to the constructor and to init; "undefined" is
\* an omitted field
ApiKeys == { "key", "undefined" }
AdapterTags == { "nextjs", "vue" }
PluginLists == { << >>, << "performance" >> }
Configs ==
    [apiKey : ApiKeys, adapter : AdapterTags, plugins : PluginLists,
     environment : { "undefined" }]

\* the configuration of the core of Init
PlainConfig ==
    [apiKey |-> "key", adapter |-> "nextjs", plugins |-> << >>,
     environment |-> "undefined"]

\* this.session = null
NullSession == [id |-> << >>]

\* the session initSession synthesizes; n stands for the random part of the id
NewSession(config, n) ==
    [id |-> << "kuyo", now, n >>,
     environment |-> IF config.environment = "undefined" THEN "production"
                     ELSE config.environment,
     startedAt |-> now, endedAt |-> 0, duration |-> 0,
     userAgent |-> "ua", ipAddress |-> "127.0.0.1"]

\* JSON.stringify of a session: its fields in the order written
Stringify(session) ==
    << session.id, session.environment, session.startedAt, session.endedAt,
       session.duration, session.userAgent, session.ipAddress >>

\* JSON.parse of a stored session
Parse(text) ==
    [id |-> text[1], environment |-> text[2], startedAt |-> text[3],
     endedAt |-> text[4], duration |-> text[5], userAgent |-> text[6],
     ipAddress |-> text[7]]

\* initSession ignores the stored record
InitSessionAlwaysNew(stored, config, n) == NewSession(config, n)

\* initSession: the session the core ends up with
InitSession(stored, config, n) ==
    IF stored # << >> THEN Parse(stored) ELSE NewSession(config, n)

\* initSession: the stored record afterwards
InitStorage(stored, config, n) ==
    IF stored # << >> THEN stored ELSE Stringify(NewSession(config, n))

\* a core as its constructor leaves it: session loaded or created, no adapter;
\* born and epoch remember the session and the number of cleanSession calls
\* at construction
NewCore(stored, config, n, epoch) ==
    [session |-> InitSession(stored, config, n), adapter |-> "null",
     setups |-> 0, teardowns |-> 0,
     born |-> InitSession(stored, config, n), epoch |-> epoch]

\* new KuyoPerformance(): core 0 is this.core = null
\* intervals counts the sweep intervals that are running, setups, teardowns
\* and added the calls made on the object
PluginNew ==
    [core |-> 0, sessionId |-> << >>, isInitialized |-> FALSE,
     producers |-> << >>, batchInterval |-> "null", intervals |-> 0,
     metricsBuffer |-> EmptyMap, keys |-> << >>, setups |-> 0,
     teardowns |-> 0, added |-> 0]

\* ------------------------------------------------------------------ Init
Fresh ==
    /\ now = 0
    /\ keyOrder = << >>
    /\ metricsBuffer = EmptyMap
    /\ batchTimers = EmptyMap
    /\ timers = {}
    /\ armed = [k \in AllKeys |-> 0]
    /\ requests = [k \in AllKeys |-> << >>]
    /\ added = [k \in AllKeys |-> 0]
    /\ firstAdd = [k \in AllKeys |-> -1]
    /\ solo = [k \in AllKeys |-> 0]
    /\ forced = 0
    /\ destroyed = 0
    /\ adds = 0

\* the transport after Prefill calls of sendPerformanceMetric for WarmCaller
\* at time 0: the first call armed the key's idle timer
Warm ==
    LET w == BufferKey(WarmCaller[1], WarmCaller[2])
    IN  /\ now = 0
        /\ keyOrder = << w >>
        /\ metricsBuffer = MapSet(EmptyMap, w, [i \in 1..Prefill |-> << w, i >>])
        /\ batchTimers = MapSet(EmptyMap, w, 1)
        /\ timers = { [key |-> w, id |-> 1, deadline |-> batchTimeout] }
        /\ armed = [k \in AllKeys |-> IF k = w THEN 1 ELSE 0]
        /\ requests = [k \in AllKeys |-> << >>]
        /\ added = [k \in AllKeys |-> IF k = w THEN Prefill ELSE 0]
        /\ firstAdd = [k \in AllKeys |-> IF k = w THEN 0 ELSE -1]
        /\ solo = [k \in AllKeys |-> 0]
        /\ forced = 0
        /\ destroyed = 0
        /\ adds = 0

\* the core as constructed: nothing captured, nothing sent
CoreFresh ==
    /\ outcomes = {}
    /\ events = << >>
    /\ eventRequests = << >>
    /\ criticalRequests = << >>
    /\ batchRequests = << >>
    /\ storage = InitStorage(<< >>, PlainConfig, 1)
    /\ cores = << NewCore(<< >>, PlainConfig, 1, 0) >>
    /\ constructed = 1
    /\ ended = << >>
    /\ inits = {}
    /\ wraps = << >>
    /\ globalCore = 0
    /\ handlers = << >>
    /\ performance = PluginNew
    /\ calls = [captureException |-> 0, captureMessage |-> 0,
                sendCriticalMetric |-> 0, sendPerformanceBatch |-> 0,
                errorEvent |-> 0]

Init == (Fresh \/ Warm) /\ CoreFresh

\* --------------------------------------------------------------- actions
\* sendPerformanceMetric(sessionId, platform, metric)
SendPerformanceMetric(c) ==
    LET k       == BufferKey(c[1], c[2])
        metric  == << k, added[k] + 1 >>
        metrics == Push(BufferOf(k), metric)
        buf1    == MapSet(metricsBuffer, k, metrics)
    IN  /\ adds < MaxAdds
        /\ adds' = adds + 1
        /\ added' = [added EXCEPT ![k] = @ + 1]
        /\ keyOrder' = IF k \in DOMAIN metricsBuffer THEN keyOrder
                       ELSE Append(keyOrder, k)
        /\ metricsBuffer' = buf1
        /\ IF Len(metrics) >= batchSize
           THEN \* await this.flushMetrics(bufferKey)
                /\ requests' = [requests EXCEPT ![k] =
                                  Append(@, NewRequest(buf1, k, "size", << >>))]
                /\ firstAdd' = [firstAdd EXCEPT ![k] = -1]
                /\ UNCHANGED << batchTimers, timers, armed, outcomes >>
           ELSE /\ requests' = requests
                /\ outcomes' = outcomes \cup
                      { << "sendPerformanceMetric", "none", "resolved" >> }
                /\ firstAdd' = [firstAdd EXCEPT ![k] = IF @ = -1 THEN now ELSE @]
                /\ IF k \notin DOMAIN batchTimers
                   THEN /\ timers' = timers \cup
                              { [key |-> k, id |-> armed[k] + 1,
                                 deadline |-> now + batchTimeout] }
                        /\ batchTimers' = MapSet(batchTimers, k, armed[k] + 1)
                        /\ armed' = [armed EXCEPT ![k] = @ + 1]
                   ELSE UNCHANGED << batchTimers, timers, armed >>
        /\ solo' = [solo EXCEPT ![k] =
                       IF BufferOf(k) = << >> /\ Len(metrics) < batchSize
                       THEN added[k] + 1 ELSE 0]
        /\ UNCHANGED << now, forced, destroyed >>
        /\ UNCHANGED dvars
        /\ UNCHANGED cvars

\* the setTimeout callback of sendPerformanceMetric, up to its fetch
TimerFire(t) ==
    /\ t \in timers
    /\ t.deadline <= now
    /\ timers' = timers \ {t}
    /\ IF FlushIsNoop(metricsBuffer, t.key)
       THEN \* flushMetrics returned early; this.batchTimers.delete(bufferKey)
            /\ batchTimers' = MapDelete(batchTimers, t.key)
            /\ UNCHANGED << requests, firstAdd >>
       ELSE /\ requests' = [requests EXCEPT ![t.key] =
                   Append(@, NewRequest(metricsBuffer, t.key, "timer", << >>))]
            /\ firstAdd' = [firstAdd EXCEPT ![t.key] = -1]
            /\ UNCHANGED batchTimers
    /\ UNCHANGED << now, keyOrder, metricsBuffer, armed, added, solo,
                    forced, destroyed, adds, outcomes >>
    /\ UNCHANGED dvars
    /\ UNCHANGED cvars

\* flushAllMetrics(), up to its first fetch
FlushAllMetrics ==
    LET i == FirstToFlush(metricsBuffer, keyOrder)
    IN  /\ forced < MaxForce
        /\ forced' = forced + 1
        /\ IF i = 0
           THEN /\ outcomes' = outcomes \cup
                      { << "flushAllMetrics", "none", "resolved" >> }
                /\ UNCHANGED << requests, firstAdd, solo >>
           ELSE /\ outcomes' = outcomes
                /\ requests' = [requests EXCEPT ![keyOrder[i]] =
                     Append(@, [NewRequest(metricsBuffer, keyOrder[i], "all",
                                    SubSeq(keyOrder, i + 1, Len(keyOrder)))
                                EXCEPT !.snap = metricsBuffer])]
                /\ firstAdd' = [firstAdd EXCEPT ![keyOrder[i]] = -1]
                /\ solo' = [solo EXCEPT ![keyOrder[i]] = 0]
        /\ UNCHANGED << now, keyOrder, metricsBuffer, batchTimers, timers,
                        armed, added, destroyed, adds >>
        /\ UNCHANGED dvars
        /\ UNCHANGED cvars

\* the fetch of the i-th request of key k settles: response.ok, or a non-2xx
\* response or a rejection; the rest of flushMetrics runs, then its caller
\* resumes
Respond(k, i, ok) ==
    LET q    == requests[k][i]
        \* if (response.ok) this.metricsBuffer.set(bufferKey, [])
        buf1 == IF ok THEN MapSet(metricsBuffer, k, << >>) ELSE metricsBuffer
        \* a settled request keeps no continuation: its caller has resumed
        done == [requests EXCEPT ![k][i].status = IF ok THEN "ok" ELSE "failed",
                                 ![k][i].rest = << >>,
                                 ![k][i].snap = EmptyMap]
        \* how the flushMetrics call ends; a rejection ends its caller too
        res  == FlushMetricsResult(ok)
        nxt  == IF q.trigger = "all" /\ res = "resolved"
                THEN FirstToFlush(buf1, q.rest) ELSE 0
        op   == IF q.trigger = "all" THEN "flushAllMetrics"
                ELSE "sendPerformanceMetric"
    IN  /\ i \in PendingFor(k)
        /\ outcomes' = IF q.trigger = "timer" \/ nxt # 0 THEN outcomes
                       ELSE outcomes \cup { << op, Outcome(ok), res >> }
        /\ metricsBuffer' = buf1
        /\ keyOrder' = IF k \in DOMAIN metricsBuffer \/ ~ok THEN keyOrder
                       ELSE Append(keyOrder, k)
        /\ batchTimers' = IF q.trigger = "timer" THEN MapDelete(batchTimers, k)
                          ELSE batchTimers
        /\ IF nxt # 0
           THEN \* the loop of flushAllMetrics goes on to its next fetch
                /\ requests' = [done EXCEPT ![q.rest[nxt]] =
                     Append(@, [NewRequest(buf1, q.rest[nxt], "all",
                                    SubSeq(q.rest, nxt + 1, Len(q.rest)))
                                EXCEPT !.snap = q.snap])]
                /\ firstAdd' = [firstAdd EXCEPT ![q.rest[nxt]] = -1]
                /\ solo' = [solo EXCEPT ![q.rest[nxt]] = 0]
           ELSE /\ requests' = done
                /\ UNCHANGED << firstAdd, solo >>
        /\ UNCHANGED << now, timers, armed, added, forced, destroyed, adds >>
        /\ UNCHANGED dvars
        /\ UNCHANGED cvars

\* destroy()
Destroy ==
    /\ destroyed < MaxDestroy
    /\ destroyed' = destroyed + 1
    /\ timers' = { t \in timers :
                     ~(t.key \in DOMAIN batchTimers /\ batchTimers[t.key] = t.id) }
    /\ batchTimers' = EmptyMap
    /\ metricsBuffer' = EmptyMap
    /\ keyOrder' = << >>
    /\ solo' = [k \in AllKeys |-> 0]
    /\ UNCHANGED << now, armed, requests, added, firstAdd, forced, adds,
                    outcomes >>
    /\ UNCHANGED dvars
    /\ UNCHANGED cvars

\* time passes
Tick ==
    /\ now < MaxTime
    /\ now' = now + TickStep
    /\ UNCHANGED << keyOrder, metricsBuffer, batchTimers, timers, armed,
                    requests, added, firstAdd, solo, forced, destroyed, adds,
                    outcomes >>
    /\ UNCHANGED dvars
    /\ UNCHANGED cvars

Next ==
    \/ \E c \in Callers : SendPerformanceMetric(c)
    \/ \E t \in timers : TimerFire(t)
    \/ FlushAllMetrics
    \/ \E k \in AllKeys : \E i \in 1..Len(requests[k]) : \E ok \in BOOLEAN :
          Respond(k, i, ok)
    \/ Destroy
    \/ Tick

Spec == Init /\ [][Next]_vars

TypeOK ==
    /\ now \in 0..(MaxTime + TickStep)
    /\ DOMAIN metricsBuffer = Range(keyOrder)
    /\ DOMAIN batchTimers \subseteq AllKeys
    /\ \A k \in DOMAIN metricsBuffer :
          \A r \in Range(metricsBuffer[k]) : r[2] \in 1..added[r[1]]
    /\ \A o \in outcomes : o[3] \in { "resolved", "rejected" }
    /\ \A i \in 1..Len(eventRequests) :
          eventRequests[i].status \in { "pending", "ok", "failed" }
    /\ \A i \in 1..Len(criticalRequests) :
          criticalRequests[i].status \in { "pending", "ok", "failed" }

\* ----------------------------------------------------------- direct sends
\* the errors and messages the host captures; "undefined" is an omitted level
Errors == { [message |-> "boom", stack |-> "at f"] }
Messages == { "hello" }
Levels == { "undefined", "warning" }

\* { ...defaults, ...params }: params.set are the fields the caller gave a
\* value, params.unset the fields it passed as undefined; both replace the
\* default, and a field that ends up undefined is not part of the result
Merge(defaults, params) ==
    [f \in ((DOMAIN defaults) \cup (DOMAIN params.set)) \ params.unset |->
        IF f \in DOMAIN params.set THEN params.set[f] ELSE defaults[f]]

\* generateId: a fresh id for every envelope
generateId == Len(events) + 1

\* the adapters handed to useAdapter
Adapters == { "nextjs", "custom" }

\* adapter.getContext(): the runtime and what it can see of it
GetContext(adapter) == [f \in { "runtime" } |-> adapter]

\* createEvent on the given core
createEvent(core, params) ==
    Merge([id |-> generateId, timestamp |-> now,
           platform |-> IF core.adapter = "null" THEN "unknown"
                        ELSE core.adapter,
           context |-> IF core.adapter = "null" THEN EmptyMap
                       ELSE GetContext(core.adapter),
           level |-> "error", session |-> core.session], params)

\* FetchTransport.send: throws when the fetch rejects or the response is not ok
Send(ok) == IF ok THEN "resolved" ELSE "rejected"

\* sendEvent: try { await transport.send(event) } catch { log }
SendEventResult(ok) == Swallow(Send(ok))

\* sendCriticalMetric: try { fetch ... } catch { log }
SendCriticalMetricResult(ok) == Swallow(TryFetch(ok))

\* sendEvent starts the one fetch of transport.send before its first await
StartSend(event) ==
    /\ events' = Append(events, event)
    /\ eventRequests' =
          Append(eventRequests,
                 [event |-> event, status |-> "pending", result |-> "none"])

\* a failed send is sent again
AfterEventSettlesRetry(reqs, i, ok) ==
    IF ok THEN [reqs EXCEPT ![i].status = "ok", ![i].result = Send(ok)]
    ELSE Append([reqs EXCEPT ![i].status = "failed", ![i].result = Send(ok)],
                [event |-> reqs[i].event, status |-> "pending",
                 result |-> "none"])

\* the requests of transport.send once request i has settled: send reports
\* the outcome to sendEvent, which logs it and returns
AfterEventSettles(reqs, i, ok) ==
    [reqs EXCEPT ![i].status = Outcome(ok), ![i].result = Send(ok)]

\* a failed critical metric is sent again
AfterCriticalSettlesRetry(reqs, i, ok) ==
    IF ok THEN [reqs EXCEPT ![i].status = "ok"]
    ELSE Append([reqs EXCEPT ![i].status = "failed"],
                [reqs[i] EXCEPT !.status = "pending"])

\* the requests of sendCriticalMetric once request i has settled
AfterCriticalSettles(reqs, i, ok) == [reqs EXCEPT ![i].status = Outcome(ok)]

\* captureException(error): builds the envelope, calls sendEvent without
\* awaiting it and returns
CaptureException(j, error) ==
    /\ Len(events) < MaxCaptures
    /\ StartSend(createEvent(cores[j],
          [set |-> [message |-> error.message, stack |-> error.stack,
                    level |-> "error"],
           unset |-> { "extra" }]))
    /\ calls' = [calls EXCEPT !.captureException = @ + 1]
    /\ outcomes' = outcomes \cup
          { << "captureException", "pending", "resolved" >> }
    /\ UNCHANGED << criticalRequests, batchRequests >>
    /\ UNCHANGED bvars
    /\ UNCHANGED cvars

\* captureMessage(message, level = "info")
CaptureMessage(j, message, level) ==
    /\ Len(events) < MaxCaptures
    /\ StartSend(createEvent(cores[j],
          [set |-> [message |-> message,
                    level |-> IF level = "undefined" THEN "info" ELSE level],
           unset |-> { "extra" }]))
    /\ calls' = [calls EXCEPT !.captureMessage = @ + 1]
    /\ outcomes' = outcomes \cup
          { << "captureMessage", "pending", "resolved" >> }
    /\ UNCHANGED << criticalRequests, batchRequests >>
    /\ UNCHANGED bvars
    /\ UNCHANGED cvars

\* the fetch of transport.send settles and sendEvent runs to its end
RespondEvent(i, ok) ==
    /\ eventRequests[i].status = "pending"
    /\ eventRequests' = AfterEventSettles(eventRequests, i, ok)
    /\ outcomes' = outcomes \cup
          { << "sendEvent", Outcome(ok), SendEventResult(ok) >> }
    /\ UNCHANGED << events, criticalRequests, batchRequests, calls >>
    /\ UNCHANGED bvars
    /\ UNCHANGED cvars

\* sendCriticalMetric(sessionId, platform, metric) up to its await
SendCriticalMetric(c) ==
    /\ Len(criticalRequests) < MaxCriticals
    /\ criticalRequests' =
          Append(criticalRequests,
                 [sessionId |-> c[1], platform |-> c[2],
                  metric |-> calls.sendCriticalMetric + 1,
                  status |-> "pending"])
    /\ calls' = [calls EXCEPT !.sendCriticalMetric = @ + 1]
    /\ UNCHANGED << outcomes, events, eventRequests, batchRequests >>
    /\ UNCHANGED bvars
    /\ UNCHANGED cvars

\* the fetch of sendCriticalMetric settles and the call runs to its end
RespondCritical(i, ok) ==
    /\ criticalRequests[i].status = "pending"
    /\ criticalRequests' = AfterCriticalSettles(criticalRequests, i, ok)
    /\ outcomes' = outcomes \cup
          { << "sendCriticalMetric", Outcome(ok),
               SendCriticalMetricResult(ok) >> }
    /\ UNCHANGED << events, eventRequests, batchRequests, calls >>
    /\ UNCHANGED bvars
    /\ UNCHANGED cvars

\* the batches handed to sendPerformanceBatch
Batches == { [sessionId |-> c[1], platform |-> c[2], metrics |-> << 1, 2 >>] :
               c \in Callers }

\* sendPerformanceBatch: try { fetch ... } catch { log; throw error }
Rethrow(result) == result

\* sendPerformanceBatch never reports a failure
SendPerformanceBatchSilent(ok) == "resolved"

SendPerformanceBatchResult(ok) == Rethrow(TryFetch(ok))

\* sendPerformanceBatch(batch) up to its await: one fetch to /performance/batch
SendPerformanceBatch(batch) ==
    /\ Len(batchRequests) < MaxBatches
    /\ batchRequests' =
          Append(batchRequests,
                 [batch |-> batch, status |-> "pending", result |-> "none"])
    /\ calls' = [calls EXCEPT !.sendPerformanceBatch = @ + 1]
    /\ UNCHANGED << outcomes, events, eventRequests, criticalRequests >>
    /\ UNCHANGED bvars
    /\ UNCHANGED cvars

\* the fetch of sendPerformanceBatch settles and the call reports to its caller
RespondBatch(i, ok) ==
    /\ batchRequests[i].status = "pending"
    /\ batchRequests' =
          [batchRequests EXCEPT ![i].status = Outcome(ok),
                                ![i].result = SendPerformanceBatchResult(ok)]
    /\ UNCHANGED << outcomes, events, eventRequests, criticalRequests, calls >>
    /\ UNCHANGED bvars
    /\ UNCHANGED cvars

\* KuyoPerformance.flushAllMetrics, as teardown calls it: setup throws before
\* it assigns this.core, so core is null and the call returns at its first
\* line
PluginFlushAllMetrics ==
    /\ outcomes' = outcomes \cup
          { << "KuyoPerformance.flushAllMetrics", "none", "resolved" >> }
    /\ UNCHANGED dvars
    /\ UNCHANGED cvars
    /\ UNCHANGED bvars

NextDirect ==
    \/ \E j \in 1..Len(cores) : \E error \in Errors :
          CaptureException(j, error)
    \/ \E j \in 1..Len(cores) : \E message \in Messages :
          \E level \in Levels : CaptureMessage(j, message, level)
    \/ \E i \in 1..Len(eventRequests) : \E ok \in BOOLEAN : RespondEvent(i, ok)
    \/ \E c \in Callers : SendCriticalMetric(c)
    \/ \E i \in 1..Len(criticalRequests) : \E ok \in BOOLEAN :
          RespondCritical(i, ok)
    \/ PluginFlushAllMetrics

SpecDirect == Init /\ [][NextDirect]_vars

\* the two calls of the transport that report to their caller: send, reached
\* through the captures, and sendPerformanceBatch
NextTransport ==
    \/ \E j \in 1..Len(cores) : \E error \in Errors :
          CaptureException(j, error)
    \/ \E j \in 1..Len(cores) : \E message \in Messages :
          \E level \in Levels : CaptureMessage(j, message, level)
    \/ \E i \in 1..Len(eventRequests) : \E ok \in BOOLEAN : RespondEvent(i, ok)
    \/ \E batch \in Batches : SendPerformanceBatch(batch)
    \/ \E i \in 1..Len(batchRequests) : \E ok \in BOOLEAN : RespondBatch(i, ok)

SpecTransport == Init /\ [][NextTransport]_vars

\* no direct send has been made
DirectIdle ==
    /\ events = << >>
    /\ criticalRequests = << >>
    /\ batchRequests = << >>
    /\ << "KuyoPerformance.flushAllMetrics", "none", "resolved" >>
          \notin outcomes

\* no call of the buffering path has been made
BufferingIdle == adds = 0 /\ forced = 0 /\ destroyed = 0 /\ now = 0

\* a host that uses the buffering path or the direct sends
NextHost ==
    \/ DirectIdle /\ Next
    \/ BufferingIdle /\ NextDirect

SpecHost == Init /\ [][NextHost]_vars

\* ------------------------------------------------------------- the core
\* the producers trackBrowserEnv sets up, in its order
Producers ==
    << "pageLoad", "webVitals", "memory", "network", "userInteraction",
       "resourceTiming", "longTask" >>

\* the producer whose set-up throws in this environment, if any
Faulty == { "none", "webVitals" }

\* the producers set up before the faulty one
SetUpBefore(faulty) ==
    IF faulty = "none" THEN Producers
    ELSE SubSeq(Producers, 1,
                (CHOOSE i \in 1..Len(Producers) : Producers[i] = faulty) - 1)

\* setup arms the sweep before anything else
PluginSetupArmsFirst(plugin, core, session, faulty) ==
    [threw |-> plugin.core = 0,
     plugin |-> [plugin EXCEPT !.batchInterval = "armed", !.intervals = @ + 1]]

\* KuyoPerformance.setup(core): log reads this.core.config before this.core
\* is assigned; the producers are set up one after the other and, when all
\* of them returned, the batch sweep is armed
PluginSetup(plugin, core, session, faulty) ==
    IF plugin.core = 0 THEN [threw |-> TRUE, plugin |-> plugin]
    ELSE IF plugin.isInitialized THEN [threw |-> FALSE, plugin |-> plugin]
    ELSE IF faulty # "none"
    THEN [threw |-> TRUE,
          plugin |-> [plugin EXCEPT !.core = core, !.sessionId = session.id,
                                    !.producers = SetUpBefore(faulty)]]
    ELSE [threw |-> FALSE,
          plugin |-> [plugin EXCEPT !.core = core, !.sessionId = session.id,
                                    !.isInitialized = TRUE,
                                    !.producers = Producers,
                                    !.batchInterval = "armed",
                                    !.intervals = @ + 1]]

\* whether the configuration asks for the performance plugin
WantsPerformance(config) ==
    \E i \in 1..Len(config.plugins) : config.plugins[i] = "performance"

\* whether the KuyoCore constructor throws: it does when the set-up of the
\* performance plugin throws
ConstructorThrows(config, faulty) ==
    /\ WantsPerformance(config)
    /\ PluginSetup(PluginNew, constructed + 1,
                   InitSession(storage, config, constructed + 1), faulty).threw

\* the plugin the constructor leaves behind
PluginOf(config, faulty) ==
    IF WantsPerformance(config)
    THEN PluginSetup(PluginNew, constructed + 1,
                     InitSession(storage, config, constructed + 1),
                     faulty).plugin
    ELSE PluginNew

\* getAdapter: only "nextjs" is supported
Supported(tag) == tag = "nextjs"

\* teardown is optional: NextjsAdapter has none, the custom adapter has one
HasTeardown(adapter) == adapter = "custom"

\* useAdapter on a core: this.adapter.teardown?.() of the previous adapter,
\* then the new one is stored and set up
WithAdapter(core, adapter) ==
    [core EXCEPT !.adapter = adapter,
                 !.setups = @ + 1,
                 !.teardowns = IF HasTeardown(core.adapter) THEN @ + 1 ELSE @]

\* the listeners after useAdapter(adapter) on core j: the teardown of a custom
\* adapter removes the listener its setup added; setup adds the listener of
\* the new adapter, bound to its core
WithListener(hs, j, adapter) ==
    Append(IF HasTeardown(cores[j].adapter)
           THEN SelectSeq(hs, LAMBDA h : h.core # j \/ h.adapter # cores[j].adapter)
           ELSE hs,
           [core |-> j, adapter |-> adapter])

\* getNextJSAdapter(): the core whose adapter does the wrapping, 0 for null
GetNextJSAdapter(g, cs) == IF g = 0 THEN 0
                           ELSE IF cs[g].adapter # "nextjs" THEN 0 ELSE g

\* new KuyoCore(config): initSession runs first, whatever happens later in
\* the constructor; a constructor that throws leaves no core behind
Construct(config, faulty) ==
    /\ constructed < MaxCores
    /\ constructed' = constructed + 1
    /\ storage' = InitStorage(storage, config, constructed + 1)
    /\ cores' = IF ConstructorThrows(config, faulty) THEN cores
                ELSE Append(cores, NewCore(storage, config, constructed + 1,
                                           Len(ended)))
    /\ UNCHANGED << ended, inits, wraps, globalCore, handlers, performance >>
    /\ UNCHANGED bvars
    /\ UNCHANGED dvars
    /\ UNCHANGED outcomes

\* init(config): the constructor, then getAdapter, then useAdapter
InitSdk(config, faulty) ==
    LET core == NewCore(storage, config, constructed + 1, Len(ended))
        report(result, c) ==
            [n |-> constructed + 1, config |-> config, faulty |-> faulty,
             result |-> result, adapter |-> c.adapter, setups |-> c.setups,
             plugin |-> PluginOf(config, faulty)]
    IN  /\ constructed < MaxCores
        /\ constructed' = constructed + 1
        /\ storage' = InitStorage(storage, config, constructed + 1)
        /\ IF ConstructorThrows(config, faulty)
           THEN /\ cores' = cores
                /\ inits' = inits \cup { report("threw", core) }
                /\ UNCHANGED << globalCore, handlers >>
           ELSE IF ~Supported(config.adapter)
           THEN /\ cores' = Append(cores, core)
                /\ inits' = inits \cup { report("threw", core) }
                /\ globalCore' = Len(cores) + 1
                /\ UNCHANGED handlers
           ELSE /\ cores' = Append(cores, WithAdapter(core, config.adapter))
                /\ inits' = inits \cup
                      { report("returned", WithAdapter(core, config.adapter)) }
                /\ globalCore' = Len(cores) + 1
                /\ handlers' = Append(handlers,
                                      [core |-> Len(cores) + 1,
                                       adapter |-> config.adapter])
        /\ UNCHANGED << ended, wraps, performance >>
        /\ UNCHANGED bvars
        /\ UNCHANGED dvars
        /\ UNCHANGED outcomes

\* useAdapter(adapter) on core j
UseAdapter(j, adapter) ==
    /\ cores[j].setups < 2
    /\ cores' = [cores EXCEPT ![j] = WithAdapter(cores[j], adapter)]
    /\ handlers' = WithListener(handlers, j, adapter)
    /\ UNCHANGED << storage, constructed, ended, inits, wraps, globalCore,
                    performance >>
    /\ UNCHANGED bvars
    /\ UNCHANGED dvars
    /\ UNCHANGED outcomes

\* cleanSession on core j
CleanSession(j) ==
    /\ Len(ended) < MaxEnds
    /\ storage' = << >>
    /\ cores' = [cores EXCEPT ![j].session = NullSession]
    /\ ended' = Append(ended, cores[j].session.id)
    /\ UNCHANGED << constructed, inits, wraps, globalCore, handlers, performance >>
    /\ UNCHANGED bvars
    /\ UNCHANGED dvars
    /\ UNCHANGED outcomes

\* the partial envelopes handed to createEvent
Partials ==
    { [set |-> [message |-> "m"], unset |-> {}],
      [set |-> [message |-> "m"], unset |-> { "level" }],
      [set |-> [id |-> 99, timestamp |-> 7, platform |-> "given",
                context |-> [f \in { "given" } |-> "given"],
                level |-> "warning", session |-> [id |-> << "given" >>]],
       unset |-> {}] }

\* createEvent(params) on core j
CreateEvent(j, params) ==
    /\ Len(events) < MaxCaptures
    /\ events' = Append(events, createEvent(cores[j], params))
    /\ UNCHANGED << outcomes, eventRequests, criticalRequests, batchRequests,
                    calls >>
    /\ UNCHANGED bvars
    /\ UNCHANGED cvars

\* what a handler does when it is called: it returns a value or throws an
\* error
NoError == [message |-> "", stack |-> ""]
Handlers ==
    { [outcome |-> "returned", value |-> "result", error |-> NoError] }
    \cup { [outcome |-> "threw", value |-> "", error |-> e] : e \in Errors }

\* the wrappers of NextjsAdapter and the source they report
Wrappers == { "wrapPage", "wrapApiRoute" }
SourceOf(wrapper) ==
    IF wrapper = "wrapPage" THEN "page-component" ELSE "api-route"

\* the wrapper swallows the error of the handler
WrapResultSwallowed(h) ==
    IF h.outcome = "threw"
    THEN [outcome |-> "returned", value |-> "", error |-> NoError]
    ELSE h

\* what the wrapper does for its caller: try { return handler(...) }
\* catch (error) { captureException(error, ...); throw error }
WrapResult(h) ==
    IF h.outcome = "threw"
    THEN [outcome |-> "threw", value |-> "", error |-> h.error]
    ELSE [outcome |-> "returned", value |-> h.value, error |-> NoError]

\* a call of a handler wrapped by wrapPage or wrapApiRoute on the adapter of
\* core j
WrappedCall(j, wrapper, h) ==
    /\ Len(wraps) < MaxWraps
    /\ wraps' = Append(wraps, [wrapper |-> wrapper, handler |-> h,
                               result |-> WrapResult(h)])
    /\ IF h.outcome = "threw"
       THEN /\ StartSend(createEvent(cores[j],
                  [set |-> [message |-> h.error.message,
                            stack |-> h.error.stack, level |-> "error",
                            extra |-> [source |-> SourceOf(wrapper)]],
                   unset |-> {}]))
            /\ calls' = [calls EXCEPT !.captureException = @ + 1]
            /\ outcomes' = outcomes \cup
                  { << "captureException", "pending", "resolved" >> }
       ELSE UNCHANGED << events, eventRequests, calls, outcomes >>
    /\ UNCHANGED << criticalRequests, batchRequests >>
    /\ UNCHANGED << storage, cores, constructed, ended, inits, globalCore,
                    handlers, performance >>
    /\ UNCHANGED bvars

NextWrap ==
    \/ \E j \in 1..Len(cores) : \E wrapper \in Wrappers : \E h \in Handlers :
          WrappedCall(j, wrapper, h)
    \/ \E i \in 1..Len(eventRequests) : \E ok \in BOOLEAN : RespondEvent(i, ok)

SpecWrap == Init /\ [][NextWrap]_vars

\* cores are constructed, sessions ended and envelopes built
NextSession ==
    \/ \E config \in Configs : \E faulty \in Faulty : Construct(config, faulty)
    \/ \E j \in 1..Len(cores) : CleanSession(j)
    \/ \E j \in 1..Len(cores) : \E params \in Partials : CreateEvent(j, params)

SpecSession == Init /\ [][NextSession]_vars

\* the host calls init
NextInit ==
    \E config \in Configs : \E faulty \in Faulty : InitSdk(config, faulty)

SpecInit == Init /\ [][NextInit]_vars

\* envelopes are built while adapters are installed
NextEnvelope ==
    \/ \E j \in 1..Len(cores) : \E adapter \in Adapters : UseAdapter(j, adapter)
    \/ \E j \in 1..Len(cores) : \E params \in Partials : CreateEvent(j, params)

SpecEnvelope == Init /\ [][NextEnvelope]_vars

\* -------------------------------------------------- the global listeners
\* the envelope captureException builds for handleError / handleNodeError on
\* the given core, n being its fresh id
Captured(core, error, n) ==
    [createEvent(core,
                 [set |-> [message |-> error.message, stack |-> error.stack,
                           level |-> "error",
                           extra |-> [source |-> "window.error"]],
                  unset |-> {}]) EXCEPT !.id = n]

\* every registered listener runs and captures on the core it is bound to
RECURSIVE Dispatch(_, _, _)
Dispatch(hs, error, evs) ==
    IF hs = << >> THEN evs
    ELSE Dispatch(Tail(hs), error,
                  Append(evs, Captured(cores[Head(hs).core], error,
                                       Len(evs) + 1)))

\* an unhandled error (or rejection) is raised in the host: the runtime calls
\* the listeners in the order they were added
ErrorEvent(error) ==
    /\ calls.errorEvent < MaxErrorEvents
    /\ events' = Dispatch(handlers, error, events)
    /\ eventRequests' = eventRequests \o
          [i \in 1..Len(handlers) |->
              [event |-> events'[Len(events) + i], status |-> "pending",
               result |-> "none"]]
    /\ calls' = [calls EXCEPT !.errorEvent = @ + 1,
                              !.captureException = @ + Len(handlers)]
    /\ outcomes' = outcomes \cup
          (IF handlers = << >> THEN {}
           ELSE { << "captureException", "pending", "resolved" >> })
    /\ UNCHANGED << criticalRequests, batchRequests >>
    /\ UNCHANGED bvars
    /\ UNCHANGED cvars

\* adapters are installed by init and useAdapter while errors are raised
NextHandlers ==
    \/ InitSdk(PlainConfig, "none")
    \/ \E j \in 1..Len(cores) : \E adapter \in Adapters : UseAdapter(j, adapter)
    \/ \E error \in Errors : ErrorEvent(error)

SpecHandlers == Init /\ [][NextHandlers]_vars

\* ------------------------------------------------ KuyoPerformance's buffer
\* typeof window !== "undefined" ? "browser" : "nodejs"
PluginPlatforms == { <<"browser">>, <<"nodejs">> }

\* a metric as a producer hands it over, with a timestamp of its own
PluginMetrics == { [type |-> "web_vital", timestamp |-> -1] }

\* `${this.sessionId}`: null prints as the word null
TemplateOf(sessionId) == IF sessionId = << >> THEN <<"null">> ELSE sessionId

\* the record keeps the timestamp it came with
StampKeep(metric) == metric

\* { ...metric, timestamp: Date.now() }
Stamp(metric) == [metric EXCEPT !.timestamp = now]

\* KuyoPerformance.addMetric(metric)
PluginAddMetric(metric, platform) ==
    LET bufferKey == BufferKey(TemplateOf(performance.sessionId), platform)
        known == bufferKey \in DOMAIN performance.metricsBuffer
        buffer == IF known THEN performance.metricsBuffer
                  ELSE MapSet(performance.metricsBuffer, bufferKey, << >>)
    IN  /\ performance.added < MaxPluginAdds
        /\ performance' =
              [performance EXCEPT
                 !.metricsBuffer =
                     MapSet(buffer, bufferKey,
                            Append(buffer[bufferKey], Stamp(metric))),
                 !.keys = IF known THEN @ ELSE Append(@, bufferKey),
                 !.added = @ + 1]
        /\ UNCHANGED << storage, cores, constructed, ended, inits, wraps,
                        globalCore, handlers >>
        /\ UNCHANGED bvars
        /\ UNCHANGED dvars
        /\ UNCHANGED outcomes

\* KuyoPerformance.flushAllMetrics up to its first await: nothing without a
\* core, else the batch of the first key whose buffer is not empty
PluginFlushStart(p) ==
    LET full == SelectSeq(p.keys, LAMBDA k : p.metricsBuffer[k] # << >>)
    IN  IF p.core = 0 \/ full = << >> THEN << >>
        ELSE << [batch |-> [sessionId |-> DecodeKey(full[1]).sessionId,
                            platform |-> DecodeKey(full[1]).platform,
                            metrics |-> p.metricsBuffer[full[1]]],
                 status |-> "pending", result |-> "none"] >>

\* KuyoPerformance.teardown(): the interval held in batchInterval is cleared,
\* then flushAllMetrics runs
PluginTeardown ==
    LET p == [performance EXCEPT
                !.isInitialized = FALSE,
                !.intervals = IF performance.batchInterval = "null" THEN @ ELSE @ - 1,
                !.batchInterval = "null",
                !.teardowns = @ + 1]
    IN  /\ performance.teardowns < MaxPluginCalls
        /\ performance' = p
        /\ batchRequests' = batchRequests \o PluginFlushStart(p)
        /\ calls' = [calls EXCEPT
                        !.sendPerformanceBatch = @ + Len(PluginFlushStart(p))]
        /\ UNCHANGED << events, eventRequests, criticalRequests >>
        /\ UNCHANGED << storage, cores, constructed, ended, inits, wraps,
                        globalCore, handlers >>
        /\ UNCHANGED bvars
        /\ UNCHANGED outcomes

\* KuyoPerformance.setup(core) with the core of Init
PluginSetupCall(faulty) ==
    /\ performance.setups < MaxPluginCalls
    /\ performance' = [PluginSetup(performance, 1, cores[1].session, faulty).plugin
                    EXCEPT !.setups = @ + 1]
    /\ UNCHANGED << storage, cores, constructed, ended, inits, wraps,
                    globalCore, handlers >>
    /\ UNCHANGED bvars
    /\ UNCHANGED dvars
    /\ UNCHANGED outcomes

\* a KuyoPerformance object is set up, fed and torn down
NextPlugin ==
    \/ \E faulty \in Faulty : PluginSetupCall(faulty)
    \/ \E metric \in PluginMetrics : \E platform \in PluginPlatforms :
          PluginAddMetric(metric, platform)
    \/ PluginTeardown

SpecPlugin == Init /\ [][NextPlugin]_vars

\* ------------------------------------------------- vocabulary of the claims
\* the buffer of k after the step
BufferNext(k) == IF k \in DOMAIN metricsBuffer' THEN metricsBuffer'[k] ELSE << >>

\* the step is a sendPerformanceMetric call under key k
IsAdd(k) == added'[k] = added[k] + 1

\* the step starts a delivery for k; NewReq(k) is that request
Starts(k) == Len(requests'[k]) = Len(requests[k]) + 1
NewReq(k) == requests'[k][Len(requests'[k])]

\* the step settles the i-th delivery of k with the given outcome
Settles(k, i, outcome) ==
    /\ requests[k][i].status = "pending"
    /\ requests'[k][i].status = outcome

\* the records <<k, lo>> .. <<k, hi>>
Records(k, lo, hi) == [i \in 1..(hi - lo + 1) |-> << k, lo + i - 1 >>]

\* the batches of the deliveries of k that succeeded, concatenated in the
\* order the deliveries were sent
RECURSIVE DeliveredUpTo(_, _)
DeliveredUpTo(k, n) ==
    IF n = 0 THEN << >>
    ELSE DeliveredUpTo(k, n - 1) \o
         (IF requests[k][n].status = "ok" THEN requests[k][n].batch ELSE << >>)

Delivered(k) == DeliveredUpTo(k, Len(requests[k]))

\* the requests of k whose batch holds record r
Carrying(k, r) == { i \in 1..Len(requests[k]) : r \in Range(requests[k][i].batch) }

\* nothing is scheduled or in flight for k
Quiescent(k) == TimersFor(k) = {} /\ PendingFor(k) = {}

\* ------------------------------------------------------------------ claims
\* C1: when a batch delivery for key k succeeds, exactly the records of that
\* batch leave k's buffer; the records added after the batch was captured are
\* still buffered.
C1_SuccessRemovesOnlyBatch ==
    [][\A k \in AllKeys : \A i \in 1..Len(requests[k]) :
          Settles(k, i, "ok") =>
             BufferNext(k) =
               SelectSeq(BufferOf(k),
                         LAMBDA r : r \notin Range(requests[k][i].batch))]_vars

\* C2: while a delivery for k is in flight, k's buffer holds none of the
\* records of that delivery's batch: the flush detached them before the fetch.
C2_BatchDetachedInFlight ==
    \A k \in AllKeys : \A i \in PendingFor(k) :
        Range(BufferOf(k)) \cap Range(requests[k][i].batch) = {}

\* C3: the flush of k that follows a failed delivery of k (before any
\* teardown) sends the failed batch followed by the records added since that
\* batch was captured, each once and in insertion order.
C3_FailedBatchResent ==
    [][\A k \in AllKeys :
          (/\ Starts(k)
           /\ destroyed = 0
           /\ requests[k] # << >>
           /\ requests[k][Len(requests[k])].status = "failed")
          => LET failed == requests[k][Len(requests[k])].batch
                 last   == failed[Len(failed)][2]
             IN  NewReq(k).batch = failed \o Records(k, last + 1, added'[k])]_vars

\* C4: at most one delivery per key is in flight.
C4_OneInFlightPerKey ==
    \A k \in AllKeys : Cardinality(PendingFor(k)) <= 1

\* C5: in the concatenation of k's delivered batches, in the order they were
\* sent, no record comes after a record that was added later than it.
C5_DeliveredInInsertionOrder ==
    \A k \in AllKeys :
        LET d == Delivered(k)
        IN  \A i, j \in 1..Len(d) : i < j => d[i][2] <= d[j][2]

\* C6: the sendPerformanceMetric call that makes k's buffer reach batchSize
\* sends exactly one batch, for k, holding exactly those batchSize records,
\* starts no delivery for another key, and leaves k's buffer empty.
C6_ThresholdFlushesExactlyKey ==
    [][\A k \in AllKeys :
          (IsAdd(k) /\ Len(BufferOf(k)) = batchSize - 1)
          => /\ Starts(k)
             /\ NewReq(k).batch = Append(BufferOf(k), << k, added'[k] >>)
             /\ Len(NewReq(k).batch) = batchSize
             /\ \A x \in AllKeys \ {k} : requests'[x] = requests[x]
             /\ BufferNext(k) = << >>]_vars

\* C7: after a size-triggered flush of k no idle timer is pending for k and
\* none is recorded in batchTimers.
C7_SizeFlushClearsTimer ==
    [][\A k \in AllKeys :
          (IsAdd(k) /\ Starts(k))
          => /\ TimersFor(k)' = {}
             /\ k \notin DOMAIN batchTimers']_vars

\* C8: an add that leaves k's buffer below batchSize appends exactly that
\* record and attempts no delivery, and the buffer then changes only by a
\* further add, a flush of k that succeeds, or teardown: until then it holds
\* the added records in insertion order.
C8_AddsBelowThresholdOnlyAppend ==
    [][\A k \in AllKeys :
          /\ (IsAdd(k) /\ Len(BufferOf(k)) + 1 < batchSize)
             => /\ BufferNext(k) = Append(BufferOf(k), << k, added'[k] >>)
                /\ requests' = requests
          /\ BufferNext(k) # BufferOf(k)
             => \/ IsAdd(k)
                \/ destroyed' # destroyed
                \/ \E i \in 1..Len(requests[k]) : Settles(k, i, "ok")]_vars

\* C8 witness: two records were added under one key and are buffered in
\* insertion order, nothing sent.
C8_Witness ==
    \E k \in AllKeys :
        /\ added[k] = 2
        /\ requests[k] = << >>
        /\ BufferOf(k) = Records(k, 1, 2)

\* C9: a timer-triggered flush of k (in a transport that was not torn down)
\* starts no earlier than batchTimeout after the first record added to k
\* since k's previous flush.
C9_TimerFlushNotEarly ==
    [][\A k \in AllKeys :
          (/\ Starts(k)
           /\ NewReq(k).trigger = "timer"
           /\ firstAdd[k] # -1
           /\ destroyed = 0)
          => now >= firstAdd[k] + batchTimeout]_vars

\* C10: a record added alone to the empty key k, below the threshold, and then
\* left alone (in a transport that was not torn down) is sent in exactly one
\* batch, which holds exactly that record and is timer-triggered: so it is
\* once nothing is scheduled or in flight for k any more.
C10_SoloRecordSentOnceByTimer ==
    \A k \in AllKeys :
        (solo[k] # 0 /\ Quiescent(k) /\ destroyed = 0)
        => /\ Cardinality(Carrying(k, << k, solo[k] >>)) = 1
           /\ \A i \in Carrying(k, << k, solo[k] >>) :
                 /\ requests[k][i].batch = << << k, solo[k] >> >>
                 /\ requests[k][i].trigger = "timer"

\* --------------------------------------------------- claims C11 .. C20
\* the step is the one in which a flushAllMetrics call returns: either the
\* call found nothing to send, or the last fetch of its loop settled
SweepReturns ==
    \/ forced' = forced + 1 /\ requests' = requests
    \/ /\ \E k \in AllKeys : \E i \in 1..Len(requests[k]) :
             /\ requests[k][i].trigger = "all"
             /\ requests[k][i].status = "pending"
             /\ requests'[k][i].status # "pending"
       /\ \A k \in AllKeys : Len(requests'[k]) = Len(requests[k])

\* the requests of k that carry record r and have not failed
Alive(k, r) == { i \in Carrying(k, r) : requests[k][i].status # "failed" }

\* C11: no record is silently lost (in a transport that was not torn down):
\* every record added under k is still buffered, or is in a batch that was
\* delivered or is still in flight; otherwise no later flush can deliver it.
C11_NoRecordSilentlyLost ==
    destroyed = 0 =>
       \A k \in AllKeys : \A n \in 1..added[k] :
          \/ << k, n >> \in Range(BufferOf(k))
          \/ Alive(k, << k, n >>) # {}

\* the records of k that some delivery of k has delivered, after the step
DeliveredNext(k) ==
    UNION { Range(requests'[k][i].batch) :
              i \in { j \in 1..Len(requests'[k]) : requests'[k][j].status = "ok" } }

\* C12: when a flushAllMetrics call returns and no delivery has failed, every
\* record that was buffered when the call started has been sent in a batch
\* and is no longer buffered.
C12_FlushAllDrainsEveryKey ==
    [][\A k \in AllKeys : \A i \in 1..Len(requests[k]) :
          (/\ SweepReturns
           /\ requests[k][i].trigger = "all"
           /\ Settles(k, i, "ok")
           /\ destroyed = 0
           /\ \A x \in AllKeys : \A j \in 1..Len(requests'[x]) :
                  requests'[x][j].status # "failed")
          => \A x \in DOMAIN requests[k][i].snap :
                \A r \in Range(requests[k][i].snap[x]) :
                   /\ r \in DeliveredNext(x)
                   /\ r \notin Range(BufferNext(x))]_vars

\* C13: when a flushAllMetrics call returns, no idle-flush timer is pending.
C13_NoTimerAfterFlushAll ==
    [][SweepReturns => timers' = {}]_vars

\* C14: at most one idle-flush timer is outstanding per key.
C14_OneTimerPerKey ==
    \A k \in AllKeys : Cardinality(TimersFor(k)) <= 1

\* C15: destroy hands every record still buffered to a delivery attempt: a
\* record in a buffer when destroy runs is in the batch of a request afterwards.
C15_DestroyDrains ==
    [][destroyed' # destroyed =>
          \A k \in AllKeys : \A r \in Range(BufferOf(k)) :
             \E i \in 1..Len(requests'[k]) : r \in Range(requests'[k][i].batch)]_vars

\* C16: after destroy no idle-flush timer remains scheduled.
C16_DestroyCancelsTimers ==
    [][destroyed' # destroyed => timers' = {}]_vars

\* the cap a bounded buffer would have: the flush threshold
BufferCap == batchSize

\* C17: no key ever buffers more than BufferCap records.
C17_BufferBounded ==
    \A k \in AllKeys : Len(BufferOf(k)) <= BufferCap

\* C18: every captureException or captureMessage call builds one envelope and
\* makes exactly one request for it; a failed request is not sent again and
\* no buffer holds the event.
C18_EventSentOnceNoRetry ==
    /\ Len(events) = calls.captureException + calls.captureMessage
    /\ Len(eventRequests) = Len(events)
    /\ \A i \in 1..Len(events) : eventRequests[i].event = events[i]
    /\ \A k \in DOMAIN metricsBuffer :
          Range(metricsBuffer[k]) \cap Range(events) = {}

C18_Witness ==
    /\ calls.captureException > 0
    /\ calls.captureMessage > 0
    /\ \E i \in 1..Len(eventRequests) : eventRequests[i].status = "failed"
    /\ \A i \in 1..Len(eventRequests) : eventRequests[i].status # "pending"

\* C19: whatever the outcome of its request, no call of captureException,
\* captureMessage, sendEvent, sendPerformanceMetric, sendCriticalMetric or
\* flushAllMetrics throws or rejects.
C19_NoFailurePropagates == \A o \in outcomes : o[3] = "resolved"

C19_Witness ==
    /\ << "sendEvent", "failed", "resolved" >> \in outcomes
    /\ << "sendCriticalMetric", "failed", "resolved" >> \in outcomes
    /\ << "captureException", "pending", "resolved" >> \in outcomes

\* C20: sendCriticalMetric makes exactly one request for its record, never a
\* second one, and changes no buffer and no timer, whether the request
\* succeeds or fails.
C20_CriticalBypassesBuffer ==
    [][criticalRequests' # criticalRequests =>
          /\ Len(criticalRequests') = calls'.sendCriticalMetric
          /\ \A i \in 1..Len(criticalRequests') :
                criticalRequests'[i].metric = i
          /\ metricsBuffer' = metricsBuffer
          /\ keyOrder' = keyOrder
          /\ timers' = timers
          /\ batchTimers' = batchTimers
          /\ requests' = requests]_vars

C20_Witness ==
    /\ timers # {}
    /\ \E k \in DOMAIN metricsBuffer : metricsBuffer[k] # << >>
    /\ \E i \in 1..Len(criticalRequests) : criticalRequests[i].status = "failed"
    /\ \E i \in 1..Len(criticalRequests) : criticalRequests[i].status = "ok"

\* C21: send and sendPerformanceBatch each make exactly one request per call,
\* never a second one, and reject exactly when that request fails.
C21_TransportReportsOutcome ==
    /\ Len(eventRequests) = Len(events)
    /\ Len(batchRequests) = calls.sendPerformanceBatch
    /\ \A i \in 1..Len(eventRequests) :
          /\ eventRequests[i].result = "rejected"
                <=> eventRequests[i].status = "failed"
          /\ eventRequests[i].result = "resolved"
                <=> eventRequests[i].status = "ok"
    /\ \A i \in 1..Len(batchRequests) :
          /\ batchRequests[i].result = "rejected"
                <=> batchRequests[i].status = "failed"
          /\ batchRequests[i].result = "resolved"
                <=> batchRequests[i].status = "ok"

C21_Witness ==
    /\ \E i \in 1..Len(eventRequests) : eventRequests[i].result = "rejected"
    /\ \E i \in 1..Len(batchRequests) : batchRequests[i].result = "rejected"
    /\ \E i \in 1..Len(batchRequests) : batchRequests[i].result = "resolved"

\* a core has been constructed in the step
Constructs == Len(cores') = Len(cores) + 1

\* an envelope has been built in the step
Builds == Len(events') = Len(events) + 1

\* the envelope built in the step
Built == events'[Len(events')]

\* C22: a constructed core reuses the persisted session if there is one and
\* otherwise creates one and persists it, so its session equals the persisted
\* record; cores constructed with no session end in between carry the same
\* session id.
C22_SessionLoadOrCreate ==
    /\ [](\A i, j \in 1..Len(cores) :
             cores[i].epoch = cores[j].epoch
             => cores[i].born.id = cores[j].born.id)
    /\ [][Constructs =>
             /\ storage' # << >>
             /\ cores'[Len(cores')].session = Parse(storage')
             /\ storage # << >> => storage' = storage
             /\ storage = << >> =>
                   \A i \in 1..Len(cores) :
                      cores[i].born.id # cores'[Len(cores')].session.id]_vars

C22_Witness ==
    /\ Len(cores) = 3
    /\ cores[2].epoch = 1
    /\ cores[3].epoch = 1
    /\ cores[2].born.id = cores[3].born.id
    /\ cores[2].born.id # cores[1].born.id
    /\ cores[3].session = Parse(storage)

\* the session a caller of createEvent supplies
GivenSession == [id |-> << "given" >>]

\* C23: cleanSession removes the persisted record and the core's session, and
\* an envelope built afterwards carries a new, non-null session whose id is
\* not one that was ended.
C23_EndedSessionReplaced ==
    [][/\ Len(ended') = Len(ended) + 1 =>
             /\ storage' = << >>
             /\ \E j \in 1..Len(cores) : cores'[j].session = NullSession
       /\ (Builds /\ Built.session # GivenSession) =>
             /\ Built.session # NullSession
             /\ \A i \in 1..Len(ended) : Built.session.id # ended[i]]_vars

\* the fields createEvent has a default for
DefaultFields ==
    { "id", "timestamp", "platform", "context", "level", "session" }

\* C24: for every partial input the envelope has, in each field the caller
\* gave no value for, the default: a generated id, the current time, level
\* "error", the adapter's name or "unknown", the adapter's context or the
\* empty map, the core's session; a supplied field is kept.
C24_CreateEventFillsDefaults ==
    [][Builds =>
          \E j \in 1..Len(cores) : \E params \in Partials :
             LET default ==
                   [id |-> Len(events) + 1, timestamp |-> now,
                    platform |-> IF cores[j].adapter = "null" THEN "unknown"
                                 ELSE cores[j].adapter,
                    context |-> IF cores[j].adapter = "null" THEN EmptyMap
                                ELSE GetContext(cores[j].adapter),
                    level |-> "error", session |-> cores[j].session]
             IN  /\ DefaultFields \subseteq DOMAIN Built
                 /\ DOMAIN params.set \subseteq DOMAIN Built
                 /\ \A f \in DOMAIN params.set : Built[f] = params.set[f]
                 /\ \A f \in DefaultFields \ DOMAIN params.set :
                       Built[f] = default[f]]_vars

\* a configuration with a credential and a supported adapter tag
ValidConfig(config) == config.apiKey # "undefined" /\ Supported(config.adapter)

\* C25: init with a missing credential or an unsupported adapter tag throws,
\* and no adapter has been installed or set up when it does.
C25_ConfigErrorIsFatal ==
    \A r \in inits :
       ~ValidConfig(r.config)
       => /\ r.result = "threw"
          /\ r.adapter = "null"
          /\ r.setups = 0

\* C27: init with "performance" among the plugins returns, leaves the plugin
\* initialized with its core and session id set and its batch sweep armed,
\* and installs the adapter.
C27_PerformancePluginEnabled ==
    \A r \in inits :
       (ValidConfig(r.config) /\ WantsPerformance(r.config)
          /\ r.faulty = "none")
       => /\ r.result = "returned"
          /\ r.plugin.isInitialized
          /\ r.plugin.core # 0
          /\ r.plugin.sessionId # << >>
          /\ r.plugin.batchInterval = "armed"
          /\ r.adapter = r.config.adapter

\* C28: when the set-up of one producer throws, init still returns, every
\* other producer is set up and the batch sweep is armed.
C28_ProducersIsolated ==
    \A r \in inits :
       (ValidConfig(r.config) /\ WantsPerformance(r.config)
          /\ r.faulty # "none")
       => /\ r.result = "returned"
          /\ Range(Producers) \ { r.faulty } \subseteq Range(r.plugin.producers)
          /\ r.plugin.batchInterval = "armed"

\* C26: when a handler wrapped by wrapPage or wrapApiRoute throws, the wrapper
\* captures that error once and throws the same error; when the handler
\* returns, the wrapper returns its result and captures nothing.
C26_WrapperPreservesHandler ==
    [][Len(wraps') = Len(wraps) + 1 =>
          LET w == wraps'[Len(wraps')]
          IN  /\ w.result.outcome = w.handler.outcome
              /\ w.result.error = w.handler.error
              /\ w.result.value = w.handler.value
              /\ w.handler.outcome = "threw" =>
                    /\ Builds
                    /\ Built.message = w.handler.error.message
                    /\ Built.stack = w.handler.error.stack
                    /\ calls'.captureException = calls.captureException + 1
                    /\ Len(eventRequests') = Len(eventRequests) + 1
              /\ w.handler.outcome = "returned" =>
                    /\ events' = events
                    /\ eventRequests' = eventRequests
                    /\ calls' = calls]_vars

C26_Witness ==
    /\ \E i \in 1..Len(wraps) :
          /\ wraps[i].wrapper = "wrapApiRoute"
          /\ wraps[i].result.outcome = "threw"
    /\ \E i \in 1..Len(wraps) :
          /\ wraps[i].wrapper = "wrapPage"
          /\ wraps[i].result.outcome = "returned"
    /\ Len(events) = 1

\* (sessionId, platform) pairs, session ids with and without the separator
KeyInputs ==
    { <<"kuyo_a">>, <<"u">>, <<"u", "-", "7">>, <<"u", "-", "browser">> }
    \X { <<"browser">>, <<"nodejs">> }

\* the step adds to k, starts a delivery for k or settles one
ActsOn(k) ==
    \/ IsAdd(k)
    \/ Starts(k)
    \/ \E i \in 1..Len(requests[k]) :
          requests[k][i].status = "pending" /\ requests'[k][i].status # "pending"

\* C29: two (sessionId, platform) pairs have the same buffer key iff they are
\* equal; a batch sent for k holds only records added under k; a step that
\* adds to or flushes some keys leaves the buffer and the timer of every
\* other key unchanged.
C29_KeysAreIndependent ==
    /\ [](/\ \A p, q \in KeyInputs :
                BufferKey(p[1], p[2]) = BufferKey(q[1], q[2]) <=> p = q
          /\ \A k \in AllKeys : \A i \in 1..Len(requests[k]) :
                \A r \in Range(requests[k][i].batch) : r[1] = k
          /\ \A k \in DOMAIN metricsBuffer :
                \A r \in Range(metricsBuffer[k]) : r[1] = k)
    /\ [][(\E k \in AllKeys : ActsOn(k)) =>
             \A x \in AllKeys :
                ~ActsOn(x) =>
                   /\ BufferNext(x) = BufferOf(x)
                   /\ TimersFor(x)' = TimersFor(x)
                   /\ (x \in DOMAIN batchTimers') = (x \in DOMAIN batchTimers)
                   /\ x \in DOMAIN batchTimers =>
                         batchTimers'[x] = batchTimers[x]]_vars

C29_Witness ==
    \E k, x \in AllKeys :
       /\ k # x
       /\ \E i \in 1..Len(requests[k]) : requests[k][i].status = "ok"
       /\ BufferOf(x) # << >>
       /\ TimersFor(x) # {}
       /\ destroyed = 0

\* C30: whenever k's buffer is non-empty and no delivery of k is in flight, an
\* idle timer is pending for k.
C30_NonEmptyBufferHasTimer ==
    \A k \in AllKeys :
       (BufferOf(k) # << >> /\ PendingFor(k) = {}) => TimersFor(k) # {}

\* C31: sendPerformanceMetric arms a new timer for k only when k's buffer was
\* empty before the add, and a key with an empty buffer and no pending timer
\* has no timer handle recorded.
C31_TimerOnlyAfterDrain ==
    /\ [][\A k \in AllKeys :
             (IsAdd(k) /\ armed'[k] = armed[k] + 1) => BufferOf(k) = << >>]_vars
    /\ [](\A k \in AllKeys :
             (BufferOf(k) = << >> /\ TimersFor(k) = {} /\ PendingFor(k) = {})
             => k \notin DOMAIN batchTimers)

\* C32: a flush of a key that is unknown or whose buffer is empty, by its timer
\* or by flushAllMetrics, starts no request and changes no buffer; every
\* request that is started carries a non-empty batch.
C32_EmptyFlushIsNoop ==
    [][/\ \A k \in AllKeys : Starts(k) => NewReq(k).batch # << >>
       /\ \A t \in timers :
             (t \notin timers' /\ destroyed' = destroyed
                /\ BufferOf(t.key) = << >>)
             => requests' = requests /\ metricsBuffer' = metricsBuffer
       /\ forced' = forced + 1 =>
             /\ metricsBuffer' = metricsBuffer
             /\ \A k \in AllKeys :
                   BufferOf(k) = << >> => requests'[k] = requests[k]]_vars

C32_Witness ==
    \E k \in AllKeys :
       /\ armed[k] = 1
       /\ TimersFor(k) = {}
       /\ k \in DOMAIN metricsBuffer
       /\ metricsBuffer[k] = << >>
       /\ destroyed = 0
       /\ forced = 1
       /\ \A i \in 1..Len(requests[k]) : requests[k][i].trigger # "timer"

\* C33: no record is contained in more than one successfully delivered batch.
C33_NoRecordDeliveredTwice ==
    \A k \in AllKeys : \A n \in 1..added[k] :
       Cardinality({ i \in Carrying(k, << k, n >>) :
                       requests[k][i].status = "ok" }) <= 1

\* C34: every batch handed to the network holds at most batchSize records.
C34_BatchAtMostBatchSize ==
    \A k \in AllKeys : \A i \in 1..Len(requests[k]) :
       Len(requests[k][i].batch) <= batchSize

\* C35: the batch sent for the key of (sessionId, platform) carries exactly
\* that sessionId and that platform, also when the session id holds a "-".
C35_KeyRoundTrips ==
    \A c \in Callers : \A i \in 1..Len(requests[BufferKey(c[1], c[2])]) :
       /\ requests[BufferKey(c[1], c[2])][i].sessionId = c[1]
       /\ requests[BufferKey(c[1], c[2])][i].platform = c[2]

\* the buffer of KuyoPerformance under key k
PluginBufferOf(p, k) ==
    IF k \in DOMAIN p.metricsBuffer THEN p.metricsBuffer[k] ELSE << >>

PluginKeys == { BufferKey(TemplateOf(<< >>), pf) : pf \in PluginPlatforms }

\* C36: KuyoPerformance.addMetric appends one record stamped with the current
\* time to the buffer of its key and does nothing else: no request is made and
\* no timer or interval is armed, however long the buffer is, and nothing
\* enters the buffer of FetchTransport; a request for the performance's records is
\* only made by a step that flushes (teardown here)
C36_AddMetricOnlyAppends ==
    [][/\ performance'.added = performance.added + 1 =>
             /\ \E k \in PluginKeys :
                   /\ Len(PluginBufferOf(performance', k)) =
                         Len(PluginBufferOf(performance, k)) + 1
                   /\ SubSeq(PluginBufferOf(performance', k), 1,
                             Len(PluginBufferOf(performance, k))) =
                         PluginBufferOf(performance, k)
                   /\ PluginBufferOf(performance', k)[Len(PluginBufferOf(performance', k))]
                         .timestamp = now
                   /\ \A o \in PluginKeys \ {k} :
                         PluginBufferOf(performance', o) = PluginBufferOf(performance, o)
             /\ batchRequests' = batchRequests
             /\ requests' = requests
             /\ metricsBuffer' = metricsBuffer
             /\ timers' = timers
             /\ batchTimers' = batchTimers
             /\ performance'.intervals = performance.intervals
             /\ performance'.batchInterval = performance.batchInterval
       /\ batchRequests' # batchRequests =>
             performance'.teardowns = performance.teardowns + 1
       /\ metricsBuffer' = metricsBuffer]_vars

C36_Witness ==
    \E k \in PluginKeys :
        /\ Len(PluginBufferOf(performance, k)) > batchSize
        /\ batchRequests = << >>
        /\ performance.intervals = 0
        /\ timers = {}

ListenersOf(j) == { i \in 1..Len(handlers) : handlers[i].core = j }

\* C38: whatever init and useAdapter calls were made, a core has the
\* listeners of one adapter only, and one unhandled error makes every core
\* that has an adapter capture exactly one envelope
C38_OneAdapterActive ==
    /\ [](\A j \in 1..Len(cores) : Cardinality(ListenersOf(j)) <= 1)
    /\ [][calls'.errorEvent = calls.errorEvent + 1 =>
             Len(events') - Len(events) =
                Cardinality({ j \in 1..Len(cores) : cores[j].adapter # "null" })]_vars

\* the step is a call of init that throws
InitThrows == \E r \in inits' \ inits : r.result = "threw"

\* C39: a call of init that throws leaves the global core and the adapter
\* the wrappers use as they were, and the global core is never a core without
\* an adapter
C39_FailedInitChangesNothing ==
    /\ [][InitThrows =>
             /\ globalCore' = globalCore
             /\ GetNextJSAdapter(globalCore', cores') =
                   GetNextJSAdapter(globalCore, cores)]_vars
    /\ [](globalCore # 0 => cores[globalCore].adapter # "null")

====
